---- MODULE Spec2Model ----
(***************************************************************************)
(* CineFlow Telegram bot (src/bot.js): the TTL response cache with proxy   *)
(* fallback (fastApi), the query classifier, and the two chat handlers     *)
(* (text message -> search, callback_query -> detail card).                *)
(*                                                                         *)
(* JavaScript strings are modelled as sequences of one-character strings,  *)
(* so that regex tests, replace, trim, split and encodeURIComponent are    *)
(* computed character by character.                                        *)
(***************************************************************************)
EXTENDS Integers, Sequences, FiniteSets, TLC

(***************************************************************************)
(* String helpers                                                          *)
(***************************************************************************)
UpperCase == <<"A", "B", "C", "D", "E", "F", "G", "H", "I", "J", "K", "L", "M", "N", "O", "P", "Q", "R", "S", "T", "U", "V", "W", "X", "Y", "Z">>

LowerCase == <<"a", "b", "c", "d", "e", "f", "g", "h", "i", "j", "k", "l", "m", "n", "o", "p", "q", "r", "s", "t", "u", "v", "w", "x", "y", "z">>

\* Case folding done by the i flag of the regular expressions.
ToLower(c) ==
  IF \E i \in 1..26 : UpperCase[i] = c
    THEN LowerCase[CHOOSE i \in 1..26 : UpperCase[i] = c]
    ELSE c

\* pat (lower case) occurs in s at position i, ignoring case.
MatchAt(s, i, pat) ==
  /\ i + Len(pat) - 1 <= Len(s)
  /\ \A j \in 1..Len(pat) : ToLower(s[i + j - 1]) = pat[j]

\* RegExp.prototype.test for an alternation of literals with the i flag.
RegexTest(pats, s) ==
  \E k \in 1..Len(pats) : \E i \in 1..Len(s) : MatchAt(s, i, pats[k])

\* String.prototype.startsWith (case sensitive).
StartsWith(s, pre) ==
  /\ Len(pre) <= Len(s)
  /\ SubSeq(s, 1, Len(pre)) = pre

WhiteSpace == {" ", "\t", "\n"}

RECURSIVE TrimStart(_)
TrimStart(s) ==
  IF s # <<>> /\ Head(s) \in WhiteSpace THEN TrimStart(Tail(s)) ELSE s

RECURSIVE TrimEnd(_)
TrimEnd(s) ==
  IF s # <<>> /\ s[Len(s)] \in WhiteSpace
    THEN TrimEnd(SubSeq(s, 1, Len(s) - 1))
    ELSE s

\* String.prototype.trim
Trim(s) == TrimEnd(TrimStart(s))

\* String.prototype.slice(0, n)
Slice(s, n) == SubSeq(s, 1, IF Len(s) < n THEN Len(s) ELSE n)

\* String.prototype.split('_')
RECURSIVE SplitFrom(_, _, _)
SplitFrom(s, i, cur) ==
  IF i > Len(s) THEN <<cur>>
  ELSE IF s[i] = "_" THEN <<cur>> \o SplitFrom(s, i + 1, <<>>)
  ELSE SplitFrom(s, i + 1, Append(cur, s[i]))

Split(s) == SplitFrom(s, 1, <<>>)

\* Characters encodeURIComponent leaves as they are:  A-Z a-z 0-9 - _ . ! ~ * ' ( )
Unreserved ==
  {UpperCase[i] : i \in 1..26} \cup {LowerCase[i] : i \in 1..26}
    \cup {"0", "1", "2", "3", "4", "5", "6", "7", "8", "9"}
    \cup {"-", "_", ".", "!", "~", "*", "'", "(", ")"}

\* The %XX escape of the other ASCII characters the bot can meet.
PercentCode ==
  (" " :> <<"%", "2", "0">>) @@ ("/" :> <<"%", "2", "F">>) @@ (":" :> <<"%", "3", "A">>) @@
  ("?" :> <<"%", "3", "F">>) @@ ("=" :> <<"%", "3", "D">>) @@ ("&" :> <<"%", "2", "6">>) @@
  ("%" :> <<"%", "2", "5">>) @@ ("+" :> <<"%", "2", "B">>) @@ ("#" :> <<"%", "2", "3">>) @@
  ("," :> <<"%", "2", "C">>) @@ ("\t" :> <<"%", "0", "9">>) @@ ("\n" :> <<"%", "0", "A">>)

RECURSIVE encodeURIComponent(_)
encodeURIComponent(s) ==
  IF s = <<>> THEN <<>>
  ELSE (IF Head(s) \in Unreserved THEN <<Head(s)>> ELSE PercentCode[Head(s)])
         \o encodeURIComponent(Tail(s))

(***************************************************************************)
(* Query classifier (src/bot.js 34-46, 96-99)                              *)
(***************************************************************************)
MoviePattern == << <<"m", "o", "v", "i", "e">>, <<"f", "i", "l", "m">> >>

TvPattern == << <<"t", "v">>, <<"s", "e", "r", "i", "e", "s">>, <<"s", "h", "o", "w">> >>

CleanPattern ==
  << <<"m", "o", "v", "i", "e">>, <<"f", "i", "l", "m">>, <<"t", "v">>, <<"s", "e", "r", "i", "e", "s">>, <<"s", "h", "o", "w">>, <<"l", "i", "n", "k">>, <<"w", "a", "t", "c", "h">>, <<"d", "o", "w", "n", "l", "o", "a", "d">> >>

hasMovieKeyword(text) == RegexTest(MoviePattern, text)

hasTvKeyword(text) == RegexTest(TvPattern, text)

\* Length of the first alternative of pats that matches s at i, 0 when none does.
MatchLen(pats, s, i) ==
  IF \E k \in 1..Len(pats) : MatchAt(s, i, pats[k])
    THEN Len(pats[CHOOSE k \in 1..Len(pats) :
                    /\ MatchAt(s, i, pats[k])
                    /\ \A m \in 1..(k - 1) : ~MatchAt(s, i, pats[m])])
    ELSE 0

\* String.prototype.replace(/a|b|.../gi, ''): one left-to-right pass that drops
\* every non-overlapping match.
RECURSIVE ReplaceAll(_, _, _)
ReplaceAll(pats, s, i) ==
  IF i > Len(s) THEN <<>>
  ELSE IF MatchLen(pats, s, i) > 0
    THEN ReplaceAll(pats, s, i + MatchLen(pats, s, i))
    ELSE <<s[i]>> \o ReplaceAll(pats, s, i + 1)

cleanQuery(text) == Trim(ReplaceAll(CleanPattern, text, 1))

EndpointMulti == <<"m", "u", "l", "t", "i">>

EndpointMovie == <<"m", "o", "v", "i", "e">>

EndpointTv == <<"t", "v">>

\* ChooseEndpoint with the `&& !hasTvKeyword(rawText)` of line 98 left out.
ChooseEndpoint_NoTie(rawText) ==
  LET e1 == IF hasMovieKeyword(rawText) THEN EndpointMovie ELSE EndpointMulti
  IN  IF hasTvKeyword(rawText) /\ ~hasMovieKeyword(rawText)
        THEN EndpointTv ELSE e1

\* let endpoint = 'multi'; then the two if statements, in order.
ChooseEndpoint(rawText) ==
  LET e1 == IF hasMovieKeyword(rawText) /\ ~hasTvKeyword(rawText)
              THEN EndpointMovie ELSE EndpointMulti
  IN  IF hasTvKeyword(rawText) /\ ~hasMovieKeyword(rawText)
        THEN EndpointTv ELSE e1


(***************************************************************************)
(* Configuration and inputs                                                *)
(***************************************************************************)
\* JavaScript's undefined where a string is expected. No string of the model is
\* equal to it: every other string is a sequence of one-character strings.
NULL == <<"undefined">>

\* process.env.TMDB_API_KEY and process.env.PROXY_API_URL of a deployment.
TMDB_API_KEY == <<"k">>

PROXY_API_URL == <<"h", "t", "t", "p", "s", ":", "/", "/", "p", "x", "/", "?", "u", "=">>

CACHE_TTL == 10 * 60 * 1000

\* The most inbound events (handler runs) of one behaviour of Spec.
MaxEvents == 2

\* The most direct fastApi calls of one behaviour of SpecCache.
MaxCalls == 3

Procs == 1..(IF MaxCalls > MaxEvents THEN MaxCalls ELSE MaxEvents)

\* The instants at which Date.now() is observed, in ms since the process
\* started: at once, just before an entry of time 0 expires, and as it expires.
Times == {0, CACHE_TTL - 1, CACHE_TTL}

\* The inbound messages (msg.chat.id, msg.text); NULL is a message without
\* text (a photo).
InMessages ==
  { [chat |-> 1, text |-> <<"r", "r", "r", " ", "m", "o", "v", "i", "e">>], [chat |-> 2, text |-> <<"m", "o", "v", "i", "e">>],
    [chat |-> 2, text |-> <<"/", "s", "t", "a", "r", "t">>], [chat |-> 1, text |-> NULL] }

\* The inbound callback queries (q.message.chat.id, q.data).
InCallbacks ==
  { [chat |-> 2, data |-> <<"s", "e", "l", "e", "c", "t", "_", "m", "o", "v", "i", "e", "_", "6", "0", "3">>], [chat |-> 1, data |-> <<"p", "a", "g", "e", "_", "2">>] }

\* Entries of the search API's results array.
ItemPerson == [id |-> <<"7">>, media_type |-> <<"p", "e", "r", "s", "o", "n">>, name |-> <<"R", "a", "m">>]

ItemMovie ==
  [id |-> <<"6", "0", "3">>, title |-> <<"R", "R", "R">>, release_date |-> <<"2", "0", "2", "2", "-", "0", "3", "-", "2", "4">>]

\* Response bodies (res.data) the upstream can answer a search with.
SearchBodies ==
  { [status_message |-> <<"x">>],
    [results |-> <<>>],
    [results |-> <<ItemPerson, ItemMovie>>] }

\* Response bodies the upstream can answer a detail request with.
DetailBodies ==
  { [title |-> <<"R", "R", "R">>, release_date |-> <<"2", "0", "2", "2", "-", "0", "3", "-", "2", "4">>, vote_average |-> <<"8">>,
     overview |-> <<"o">>, poster_path |-> <<"/", "p", ".", "j", "p", "g">>] }

\* What a direct fastApi call is answered with: the payload is opaque to the cache.
OpaqueBodies == { [results |-> <<>>] }

SearchBase == <<"h", "t", "t", "p", "s", ":", "/", "/", "a", "p", "i", ".", "t", "h", "e", "m", "o", "v", "i", "e", "d", "b", ".", "o", "r", "g", "/", "3", "/", "s", "e", "a", "r", "c", "h", "/">>

DetailBase == <<"h", "t", "t", "p", "s", ":", "/", "/", "a", "p", "i", ".", "t", "h", "e", "m", "o", "v", "i", "e", "d", "b", ".", "o", "r", "g", "/", "3", "/">>

\* An optional property of a JSON object.
Field(r, f) == IF f \in DOMAIN r THEN r[f] ELSE NULL

\* Truthiness of a string-or-undefined value.
Truthy(x) == x # NULL /\ x # <<>>

\* A value inside a template literal.
ToStr(x) == IF x = NULL THEN <<"u", "n", "d", "e", "f", "i", "n", "e", "d">> ELSE x

(***************************************************************************)
(* State                                                                   *)
(***************************************************************************)
VARIABLES
  clock,    \* Date.now()
  CACHE,    \* the Map: a function from the keys present to {time, data}
  h,        \* per handler run: its position and its local variables
  reqs,     \* history: per handler run, the axios.get calls it made, in order
  sent,     \* history: per handler run, the chat-transport calls it made, in order
  ops,      \* history: per handler run, its CACHE.delete / CACHE.set calls, in order
  lastSet,  \* history: per key, the handler run whose CACHE.set came last
  ctext,    \* classifier check: the input text
  cout,     \* classifier check: what the classifier computed for ctext
  rin,      \* reply check: the message text and the body the search returned
  rout      \* reply check: what the handlers sent and did for rin; under
            \* SpecSelect, history: the outcome of each run's deleteMessage

vars == <<clock, CACHE, h, reqs, sent, ops, lastSet, ctext, cout, rin, rout>>

\* No response yet.
NoResponse == [by |-> 0, via |-> "none", req |-> <<>>, data |-> [none |-> TRUE]]

\* A handler run that has not started.
Idle ==
  [pc |-> "idle", kind |-> "none", chat |-> 0, text |-> NULL, rawText |-> NULL,
   query |-> NULL, endpoint |-> NULL, type |-> NULL, id |-> NULL,
   url |-> NULL, now |-> 0, res |-> NoResponse, fetch |-> "none", skeleton |-> 0,
   found |-> [some |-> FALSE, time |-> 0, by |-> 0],
   returnedBefore |-> {}, calls |-> 0]

\* The empty Map.
EmptyMap == [k \in {} |-> 0]

\* Map.prototype.set and Map.prototype.delete
MapSet(m, k, v) == [x \in DOMAIN m \cup {k} |-> IF x = k THEN v ELSE m[x]]

MapDelete(m, k) == [x \in DOMAIN m \ {k} |-> m[x]]

(***************************************************************************)
(* fastApi (src/bot.js 12-31)                                              *)
(***************************************************************************)
\* IsFresh with <= for <, and IsFresh with a TTL that is one unit too short.
IsFresh_Le(now, time) == now - time <= CACHE_TTL

IsFresh_Short(now, time) == now - time < CACHE_TTL - 1

\* Line 17: the entry is served.
IsFresh(now, time) == now - time < CACHE_TTL

\* CacheLookup that leaves an expired entry in the Map, and CacheLookup that
\* renews the time of an entry it serves (a sliding expiration).
CacheLookup_KeepExpired(cache, url, now) ==
  IF url \in DOMAIN cache /\ IsFresh(now, cache[url].time)
    THEN [hit |-> TRUE, data |-> cache[url].data, cache |-> cache,
          deleted |-> FALSE]
    ELSE [hit |-> FALSE, data |-> NoResponse, cache |-> cache, deleted |-> FALSE]

CacheLookup_Sliding(cache, url, now) ==
  IF url \in DOMAIN cache
    THEN IF IsFresh(now, cache[url].time)
           THEN [hit |-> TRUE, data |-> cache[url].data,
                 cache |-> MapSet(cache, url, [time |-> now, data |-> cache[url].data]),
                 deleted |-> FALSE]
           ELSE [hit |-> FALSE, data |-> NoResponse,
                 cache |-> MapDelete(cache, url), deleted |-> TRUE]
    ELSE [hit |-> FALSE, data |-> NoResponse, cache |-> cache, deleted |-> FALSE]

\* Lines 15-19: what the call finds, and the Map it leaves.
CacheLookup(cache, url, now) ==
  IF url \in DOMAIN cache
    THEN IF IsFresh(now, cache[url].time)
           THEN [hit |-> TRUE, data |-> cache[url].data, cache |-> cache,
                 deleted |-> FALSE]
           ELSE [hit |-> FALSE, data |-> NoResponse,
                 cache |-> MapDelete(cache, url), deleted |-> TRUE]
    ELSE [hit |-> FALSE, data |-> NoResponse, cache |-> cache, deleted |-> FALSE]

\* Line 26
ProxyUrl(url) == PROXY_API_URL \o encodeURIComponent(url)

\* StoreKey with the URL that was requested (the proxy URL after a fallback).
StoreKey_Requested(url, requested) == requested

\* The key of lines 23 and 28.
StoreKey(url, requested) == url

\* StoreEntry with a time that does not advance, and with the time of the store
\* in place of the time captured at line 13.
StoreEntry_Epoch(now, res) == [time |-> 0, data |-> res]

StoreEntry_AtCompletion(now, res) == [time |-> clock, data |-> res]

\* StoreEntry that never stores a time earlier than one already in the Map.
StoreEntry_Monotone(now, res) ==
  LET later == {CACHE[k].time : k \in DOMAIN CACHE} \cap {t \in Times : t > now}
  IN  [time |-> IF later = {} THEN now ELSE CHOOSE t \in later : \A u \in later : u <= t,
       data |-> res]

\* The entry of lines 23 and 28.
StoreEntry(now, res) == [time |-> now, data |-> res]

\* Response with in-flight coalescing: the calls for one URL share the response
\* object of the earliest of them that is in flight.
Response_Shared(p, via, requested, body) ==
  LET flying == {q \in Procs : h[q].url = h[p].url
                                 /\ h[q].pc \in {"primary", "fallback"}}
  IN  [by |-> CHOOSE q \in flying : \A r \in flying : q <= r,
       via |-> via, req |-> requested, data |-> body]

\* The response object axios.get resolves with: a new object per request.
Response(p, via, requested, body) ==
  [by |-> p, via |-> via, req |-> requested, data |-> body]

\* The bodies the upstream can answer handler run p with.
Bodies(p) ==
  CASE h[p].kind = "message" -> SearchBodies
    [] h[p].kind = "callback" -> DetailBodies
    [] OTHER -> OpaqueBodies

\* The runs whose fastApi(url) call has returned a payload.
Returned(url) == {q \in Procs : h[q].url = url /\ h[q].fetch \in {"hit", "stored"}}

(***************************************************************************)
(* What the handlers send (src/bot.js 49-64, 67-82, 92-94, 108-149,        *)
(* 169-204)                                                                *)
(***************************************************************************)
\* pat occurs in s at position i (case sensitive).
ExactAt(s, i, pat) ==
  /\ i + Len(pat) - 1 <= Len(s)
  /\ \A j \in 1..Len(pat) : s[i + j - 1] = pat[j]

\* /\/start/ of bot.onText
IsStartCommand(text) == \E i \in 1..Len(text) : ExactAt(text, i, <<"/", "s", "t", "a", "r", "t">>)

SendMessage(chat, text, markup) ==
  [method |-> "sendMessage", chat |-> chat, text |-> text, markup |-> markup]

\* The fixed texts, each one token.
TextWelcome == <<"CINEFLOW BOT">>

TextEnterName == <<"Please enter a movie or TV name">>

TextBusy == <<"TMDB busy, try again">>

TextNoResults == <<"No results found. Try Google">>

TextLoading == <<"Loading...">>

TextLoadFailed == <<"Failed to load details">>

GlyphMovie == <<"{clapper}">>

GlyphTv == <<"{television}">>

\* !res.data?.results?.length is false
HasResults(body) == "results" \in DOMAIN body /\ Len(body.results) > 0

\* Lines 134-143: one row of the inline keyboard.
Button(r, endpoint) ==
  LET type == IF Truthy(Field(r, "media_type")) THEN r.media_type ELSE endpoint
      date == IF type = <<"m", "o", "v", "i", "e">> THEN Field(r, "release_date")
                                 ELSE Field(r, "first_air_date")
      year == IF date = NULL THEN NULL ELSE Slice(date, 4)
      title == IF Truthy(Field(r, "title")) THEN r.title ELSE Field(r, "name")
  IN  << [text |-> (IF type = <<"m", "o", "v", "i", "e">> THEN GlyphMovie ELSE GlyphTv) \o <<" ">>
                     \o ToStr(title) \o <<" ", "(">>
                     \o (IF Truthy(year) THEN year ELSE <<"N", "/", "A">>) \o <<")">>,
          callback_data |-> <<"s", "e", "l", "e", "c", "t", "_">> \o type \o <<"_">> \o r.id] >>

IsMedia(r) == Field(r, "media_type") # <<"p", "e", "r", "s", "o", "n">>

\* Array.prototype.slice(0, n)
Take(s, n) == SubSeq(s, 1, IF Len(s) < n THEN Len(s) ELSE n)

\* Buttons that cuts the array at 10 before it drops the person results.
Buttons_SliceFirst(results, endpoint) ==
  LET kept == SelectSeq(Take(results, 10), IsMedia)
  IN  [i \in 1..Len(kept) |-> Button(kept[i], endpoint)]

\* Lines 130-144
Buttons(results, endpoint) ==
  LET kept == Take(SelectSeq(results, IsMedia), 10)
  IN  [i \in 1..Len(kept) |-> Button(kept[i], endpoint)]

\* SearchReply whose web-search link is built from the cleaned query.
SearchReply_CleanedLink(hr) ==
  IF ~HasResults(hr.res.data)
    THEN SendMessage(hr.chat, TextNoResults,
           << << [text |-> <<"Search on Google">>,
                  url |-> <<"h", "t", "t", "p", "s", ":", "/", "/", "w", "w", "w", ".", "g", "o", "o", "g", "l", "e", ".", "c", "o", "m", "/", "s", "e", "a", "r", "c", "h", "?", "q", "=">>
                            \o encodeURIComponent(hr.query)] >> >>)
    ELSE SendMessage(hr.chat, <<"Results for ">> \o hr.query,
                     Buttons(hr.res.data.results, hr.endpoint))

\* Lines 112-149: the reply to a search whose fetch returned res.
SearchReply(hr) ==
  IF ~HasResults(hr.res.data)
    THEN SendMessage(hr.chat, TextNoResults,
           << << [text |-> <<"Search on Google">>,
                  url |-> <<"h", "t", "t", "p", "s", ":", "/", "/", "w", "w", "w", ".", "g", "o", "o", "g", "l", "e", ".", "c", "o", "m", "/", "s", "e", "a", "r", "c", "h", "?", "q", "=">>
                            \o encodeURIComponent(hr.rawText)] >> >>)
    ELSE SendMessage(hr.chat, <<"Results for ">> \o hr.query,
                     Buttons(hr.res.data.results, hr.endpoint))

\* Lines 175-204: the detail card.
DetailCard(hr) ==
  LET m == hr.res.data
      tail == ToStr(hr.type) \o <<"/">> \o ToStr(hr.id)
      date == IF Truthy(Field(m, "release_date")) THEN m.release_date
              ELSE IF Truthy(Field(m, "first_air_date")) THEN m.first_air_date
              ELSE <<>>
  IN  [method |-> "sendPhoto", chat |-> hr.chat,
       photo |-> <<"h", "t", "t", "p", "s", ":", "/", "/", "i", "m", "a", "g", "e", ".", "t", "m", "d", "b", ".", "o", "r", "g", "/", "t", "/", "p", "/", "w", "5", "0", "0">> \o ToStr(Field(m, "poster_path")),
       caption |-> [title |-> IF Truthy(Field(m, "title")) THEN m.title
                               ELSE ToStr(Field(m, "name")),
                    year |-> Slice(date, 4),
                    rating |-> ToStr(Field(m, "vote_average")),
                    overview |-> ToStr(Field(m, "overview"))],
       markup |-> << << [text |-> <<"Watch 1">>,
                         url |-> <<"h", "t", "t", "p", "s", ":", "/", "/", "c", "i", "n", "e", "f", "l", "o", "w", "1", ".", "v", "e", "r", "c", "e", "l", ".", "a", "p", "p", "/">> \o tail],
                        [text |-> <<"Watch 2">>,
                         url |-> <<"h", "t", "t", "p", "s", ":", "/", "/", "c", "i", "n", "e", "f", "l", "o", "w", "-", "r", "o", "s", "e", ".", "v", "e", "r", "c", "e", "l", ".", "a", "p", "p", "/">> \o tail],
                        [text |-> <<"download">>,
                         url |-> <<"h", "t", "t", "p", "s", ":", "/", "/", "c", "i", "n", "e", "f", "l", "o", "w", "1", ".", "v", "e", "r", "c", "e", "l", ".", "a", "p", "p", "/", "d", "o", "w", "n", "l", "o", "a", "d", "/">> \o tail] >> >>]

\* skeleton.remove(): bot.deleteMessage(chatId, msg.message_id)
DeleteSkeleton(hr) ==
  [method |-> "deleteMessage", chat |-> hr.chat, message_id |-> hr.skeleton]

\* The caller's code after `res = await fastApi(...)` returned: the search
\* handler replies and ends, the selection handler awaits skeleton.remove(), a
\* direct caller has its payload.
AfterFetch(hr) ==
  CASE hr.kind = "message" ->
         [h |-> [hr EXCEPT !.pc = "done"], sends |-> <<SearchReply(hr)>>]
    [] hr.kind = "callback" ->
         [h |-> [hr EXCEPT !.pc = "removing"], sends |-> <<DeleteSkeleton(hr)>>]
    [] OTHER -> [h |-> [hr EXCEPT !.pc = "done"], sends |-> <<>>]

\* The handler's catch block after fastApi threw (lines 108-110, 169-172); a
\* direct caller gets the rejection.
AfterFetchError(hr) ==
  CASE hr.kind = "message" ->
         [h |-> [hr EXCEPT !.pc = "done"],
          sends |-> <<SendMessage(hr.chat, TextBusy, <<>>)>>]
    [] hr.kind = "callback" ->
         [h |-> [hr EXCEPT !.pc = "removing"], sends |-> <<DeleteSkeleton(hr)>>]
    [] OTHER -> [h |-> [hr EXCEPT !.pc = "rejected"], sends |-> <<>>]

\* Lines 104-106 and 167
SearchUrl(endpoint, query) ==
  SearchBase \o endpoint \o <<"?", "q", "u", "e", "r", "y", "=">> \o encodeURIComponent(query)
    \o <<"&", "a", "p", "i", "_", "k", "e", "y", "=">> \o TMDB_API_KEY

DetailUrl(type, id) ==
  DetailBase \o ToStr(type) \o <<"/">> \o ToStr(id) \o <<"?", "a", "p", "i", "_", "k", "e", "y", "=">> \o TMDB_API_KEY

(***************************************************************************)
(* Actions: one per piece of code that runs between two awaits             *)
(***************************************************************************)
Init ==
  /\ clock = 0
  /\ CACHE = EmptyMap
  /\ h = [p \in Procs |-> Idle]
  /\ reqs = [p \in Procs |-> <<>>]
  /\ sent = [p \in Procs |-> <<>>]
  /\ ops = [p \in Procs |-> <<>>]
  /\ lastSet = EmptyMap
  /\ ctext = <<>>
  /\ cout = [done |-> FALSE]
  /\ rin = <<>>
  /\ rout = [phase |-> "none"]

\* Handler runs start in the order of their numbers.
CanStart(p) ==
  /\ p <= MaxEvents
  /\ h[p].pc = "idle"
  /\ IF p = 1 THEN TRUE ELSE h[p - 1].pc # "idle"

\* Date.now() advances.
Tick ==
  /\ \E t \in Times : t > clock /\ clock' = t
  /\ UNCHANGED <<CACHE, h, reqs, sent, ops, lastSet, ctext, cout, rin, rout>>

\* `await fastApi(url)` entered by run p (lines 13-22), hr being the run's
\* variables at the call and presends what it sent just before. On a hit the
\* call returns at once and the handler goes on. The entry the call finds and
\* the calls for the URL that have returned by now are recorded as history.
EnterFastApi(p, hr, url, presends) ==
  LET now == clock
      look == CacheLookup(CACHE, url, now)
      hr1 == [hr EXCEPT !.url = url, !.now = now, !.returnedBefore = Returned(url),
                        !.calls = @ + 1,
                        !.found = IF url \in DOMAIN CACHE
                                    THEN [some |-> TRUE, time |-> CACHE[url].time,
                                          by |-> CACHE[url].data.by]
                                    ELSE [some |-> FALSE, time |-> 0, by |-> 0]]
  IN  /\ CACHE' = look.cache
      /\ ops' = [ops EXCEPT ![p] =
                   IF look.deleted THEN Append(@, [op |-> "delete", key |-> url])
                                   ELSE @]
      /\ IF look.hit
           THEN LET k == AfterFetch([hr1 EXCEPT !.res = look.data, !.fetch = "hit"])
                IN  /\ h' = [h EXCEPT ![p] = k.h]
                    /\ sent' = [sent EXCEPT ![p] = @ \o presends \o k.sends]
                    /\ reqs' = reqs
           ELSE /\ h' = [h EXCEPT ![p] = [hr1 EXCEPT !.pc = "primary"]]
                /\ sent' = [sent EXCEPT ![p] = @ \o presends]
                /\ reqs' = [reqs EXCEPT ![p] =
                              Append(@, [url |-> url, timeout |-> 5000])]
      /\ UNCHANGED <<clock, lastSet, ctext, cout, rin, rout>>

\* IsEmptyQuery without the test of line 92.
IsEmptyQuery_Never(query) == FALSE

\* Line 92: !query
IsEmptyQuery(query) == query = <<>>

\* The URLs of the direct calls: the first call is for either URL, the later
\* ones are for the search URL.
CallUrls(p) ==
  IF p = 1 THEN {SearchUrl(EndpointMovie, <<"r", "r", "r">>), DetailUrl(<<"m", "o", "v", "i", "e">>, <<"6", "0", "3">>)}
           ELSE {SearchUrl(EndpointMovie, <<"r", "r", "r">>)}

\* fastApi(url) called directly, as a test of the cache calls it.
Call(p, url) ==
  /\ p <= MaxCalls
  /\ url \in CallUrls(p)
  /\ h[p].pc = "idle"
  /\ IF p = 1 THEN TRUE ELSE h[p - 1].pc # "idle"
  /\ EnterFastApi(p, [h[p] EXCEPT !.kind = "fetch"], url, <<>>)

\* bot.onText(/\/start/) and bot.on('message') for one inbound message.
OnMessage(p, chat, text) ==
  /\ CanStart(p)
  /\ LET welcome == IF text # NULL /\ IsStartCommand(text)
                      THEN <<SendMessage(chat, TextWelcome, <<>>)>> ELSE <<>>
         hr0 == [h[p] EXCEPT !.kind = "message", !.chat = chat, !.text = text]
     IN  IF text = NULL \/ text = <<>> \/ StartsWith(text, <<"/">>)
           THEN /\ h' = [h EXCEPT ![p] = [hr0 EXCEPT !.pc = "done"]]
                /\ sent' = [sent EXCEPT ![p] = @ \o welcome]
                /\ UNCHANGED <<clock, CACHE, reqs, ops, lastSet, ctext, cout, rin, rout>>
           ELSE LET rawText == Trim(text)
                    query == cleanQuery(rawText)
                    hr1 == [hr0 EXCEPT !.rawText = rawText, !.query = query]
                IN  IF IsEmptyQuery(query)
                      THEN /\ h' = [h EXCEPT ![p] = [hr1 EXCEPT !.pc = "done"]]
                           /\ sent' = [sent EXCEPT ![p] =
                                 @ \o <<SendMessage(chat, TextEnterName, <<>>)>>
                                   \o welcome]
                           /\ UNCHANGED <<clock, CACHE, reqs, ops, lastSet,
                                          ctext, cout, rin, rout>>
                      ELSE LET endpoint == ChooseEndpoint(rawText)
                           IN  EnterFastApi(p, [hr1 EXCEPT !.endpoint = endpoint],
                                            SearchUrl(endpoint, query), welcome)

\* A request of run p was answered: CACHE.set and return res (lines 23-24 and
\* 28-29), then the handler goes on.
Resolve(p, via, requested, body) ==
  LET res == Response(p, via, requested, body)
      key == StoreKey(h[p].url, requested)
      k == AfterFetch([h[p] EXCEPT !.res = res, !.fetch = "stored"])
  IN  /\ CACHE' = MapSet(CACHE, key, StoreEntry(h[p].now, res))
      /\ ops' = [ops EXCEPT ![p] = Append(@, [op |-> "set", key |-> key])]
      /\ lastSet' = MapSet(lastSet, key, p)
      /\ h' = [h EXCEPT ![p] = k.h]
      /\ sent' = [sent EXCEPT ![p] = @ \o k.sends]
      /\ UNCHANGED <<clock, reqs, ctext, cout, rin, rout>>

\* PrimaryResolve that issues the proxy request although the primary answered.
PrimaryResolve_AlsoFallback(p, body) ==
  /\ h[p].pc = "primary"
  /\ body \in Bodies(p)
  /\ LET res == Response(p, "primary", h[p].url, body)
         key == StoreKey(h[p].url, h[p].url)
         k == AfterFetch([h[p] EXCEPT !.res = res, !.fetch = "stored"])
     IN  /\ CACHE' = MapSet(CACHE, key, StoreEntry(h[p].now, res))
         /\ ops' = [ops EXCEPT ![p] = Append(@, [op |-> "set", key |-> key])]
         /\ lastSet' = MapSet(lastSet, key, p)
         /\ h' = [h EXCEPT ![p] = k.h]
         /\ sent' = [sent EXCEPT ![p] = @ \o k.sends]
         /\ reqs' = [reqs EXCEPT ![p] =
                       Append(@, [url |-> ProxyUrl(h[p].url), timeout |-> 8000])]
         /\ UNCHANGED <<clock, ctext, cout, rin, rout>>

\* The primary request answered (lines 22-24).
PrimaryResolve(p, body) ==
  /\ h[p].pc = "primary"
  /\ body \in Bodies(p)
  /\ Resolve(p, "primary", h[p].url, body)

\* The primary request failed: the catch block issues the proxy request.
PrimaryReject(p) ==
  /\ h[p].pc = "primary"
  /\ h' = [h EXCEPT ![p].pc = "fallback"]
  /\ reqs' = [reqs EXCEPT ![p] =
                Append(@, [url |-> ProxyUrl(h[p].url), timeout |-> 8000])]
  /\ UNCHANGED <<clock, CACHE, sent, ops, lastSet, ctext, cout, rin, rout>>

FallbackResolve(p, body) ==
  /\ h[p].pc = "fallback"
  /\ body \in Bodies(p)
  /\ Resolve(p, "proxy", ProxyUrl(h[p].url), body)

\* FallbackReject that caches the failure under the URL before it throws.
FallbackReject_Caches(p) ==
  /\ h[p].pc = "fallback"
  /\ LET k == AfterFetchError([h[p] EXCEPT !.fetch = "error"])
     IN  /\ h' = [h EXCEPT ![p] = k.h]
         /\ sent' = [sent EXCEPT ![p] = @ \o k.sends]
  /\ CACHE' = MapSet(CACHE, h[p].url, StoreEntry(h[p].now, NoResponse))
  /\ UNCHANGED <<clock, reqs, ops, lastSet, ctext, cout, rin, rout>>

\* The proxy request failed too: fastApi throws into the handler's catch.
FallbackReject(p) ==
  /\ h[p].pc = "fallback"
  /\ LET k == AfterFetchError([h[p] EXCEPT !.fetch = "error"])
     IN  /\ h' = [h EXCEPT ![p] = k.h]
         /\ sent' = [sent EXCEPT ![p] = @ \o k.sends]
  /\ UNCHANGED <<clock, CACHE, reqs, ops, lastSet, ctext, cout, rin, rout>>

\* SelectionOf without the hole of the destructuring pattern: [type, id].
SelectionOf_NoSkip(data) ==
  LET parts == Split(data)
  IN  [type |-> IF Len(parts) >= 1 THEN parts[1] ELSE NULL,
       id |-> IF Len(parts) >= 2 THEN parts[2] ELSE NULL]

\* Line 159: const [, type, id] = data.split('_')
SelectionOf(data) ==
  LET parts == Split(data)
  IN  [type |-> IF Len(parts) >= 2 THEN parts[2] ELSE NULL,
       id |-> IF Len(parts) >= 3 THEN parts[3] ELSE NULL]

\* bot.on('callback_query') up to `await bot.answerCallbackQuery` (153-161).
OnCallbackQuery(p, chat, data) ==
  /\ CanStart(p)
  /\ LET hr0 == [h[p] EXCEPT !.kind = "callback", !.chat = chat, !.text = data]
         sel == SelectionOf(data)
     IN  IF ~StartsWith(data, <<"s", "e", "l", "e", "c", "t", "_">>)
           THEN /\ h' = [h EXCEPT ![p] = [hr0 EXCEPT !.pc = "done"]]
                /\ sent' = sent
           ELSE /\ h' = [h EXCEPT ![p] =
                           [hr0 EXCEPT !.pc = "answering",
                              !.type = sel.type, !.id = sel.id]]
                /\ sent' = [sent EXCEPT ![p] =
                              Append(@, [method |-> "answerCallbackQuery",
                                         chat |-> chat, text |-> TextLoading])]
  /\ UNCHANGED <<clock, CACHE, reqs, ops, lastSet, ctext, cout, rin, rout>>

\* answerCallbackQuery resolved: showSkeleton sends the loading message.
AnswerResolve(p) ==
  /\ h[p].pc = "answering"
  /\ h' = [h EXCEPT ![p].pc = "skeleton"]
  /\ sent' = [sent EXCEPT ![p] =
                Append(@, SendMessage(h[p].chat, TextLoading, <<>>))]
  /\ UNCHANGED <<clock, CACHE, reqs, ops, lastSet, ctext, cout, rin, rout>>

\* answerCallbackQuery rejected: nothing catches it, the handler's promise rejects.
AnswerReject(p) ==
  /\ h[p].pc = "answering"
  /\ h' = [h EXCEPT ![p].pc = "rejected"]
  /\ UNCHANGED <<clock, CACHE, reqs, sent, ops, lastSet, ctext, cout, rin, rout>>

\* The loading message was sent (message_id mid): fastApi is called (164-168).
SkeletonResolve(p, mid) ==
  /\ h[p].pc = "skeleton"
  /\ EnterFastApi(p, [h[p] EXCEPT !.skeleton = mid],
                  DetailUrl(h[p].type, h[p].id), <<>>)

\* Sending the loading message failed: showSkeleton rejects, nothing catches it.
SkeletonReject(p) ==
  /\ h[p].pc = "skeleton"
  /\ h' = [h EXCEPT ![p].pc = "rejected"]
  /\ UNCHANGED <<clock, CACHE, reqs, sent, ops, lastSet, ctext, cout, rin, rout>>

\* Lines 171 and 177: what the selection handler sends last.
FinalMessage(hr) ==
  IF hr.fetch = "error" THEN SendMessage(hr.chat, TextLoadFailed, <<>>)
                        ELSE DetailCard(hr)

\* skeleton.remove() settled (a rejection of deleteMessage is swallowed by its
\* catch): the handler sends the load failure or the detail card.
RemoveSettle(p, ok) ==
  /\ h[p].pc = "removing"
  /\ h' = [h EXCEPT ![p].pc = "done"]
  /\ sent' = [sent EXCEPT ![p] = Append(@, FinalMessage(h[p]))]
  /\ UNCHANGED <<clock, CACHE, reqs, ops, lastSet, ctext, cout, rin, rout>>

\* RemoveSettleLogged without the catch of line 60: a rejection of
\* deleteMessage rejects the handler's promise.
RemoveSettleLogged_Throws(p, ok) ==
  /\ h[p].pc = "removing"
  /\ h' = [h EXCEPT ![p].pc = IF ok THEN "done" ELSE "rejected"]
  /\ sent' = [sent EXCEPT ![p] = IF ok THEN Append(@, FinalMessage(h[p])) ELSE @]
  /\ rout' = [rout EXCEPT !.removal[p] = IF ok THEN "deleted" ELSE "failed"]
  /\ UNCHANGED <<clock, CACHE, reqs, ops, lastSet, ctext, cout, rin>>

\* RemoveSettle, with the outcome of deleteMessage kept as history in rout.
RemoveSettleLogged(p, ok) ==
  /\ h[p].pc = "removing"
  /\ h' = [h EXCEPT ![p].pc = "done"]
  /\ sent' = [sent EXCEPT ![p] = Append(@, FinalMessage(h[p]))]
  /\ rout' = [rout EXCEPT !.removal[p] = IF ok THEN "deleted" ELSE "failed"]
  /\ UNCHANGED <<clock, CACHE, reqs, ops, lastSet, ctext, cout, rin>>

AllBodies == SearchBodies \cup DetailBodies \cup OpaqueBodies

Next ==
  \/ Tick
  \/ \E p \in Procs, m \in InMessages : OnMessage(p, m.chat, m.text)
  \/ \E p \in Procs, q \in InCallbacks : OnCallbackQuery(p, q.chat, q.data)
  \/ \E p \in Procs, body \in AllBodies : PrimaryResolve(p, body)
  \/ \E p \in Procs : PrimaryReject(p)
  \/ \E p \in Procs, body \in AllBodies : FallbackResolve(p, body)
  \/ \E p \in Procs : FallbackReject(p)
  \/ \E p \in Procs : AnswerResolve(p)
  \/ \E p \in Procs : AnswerReject(p)
  \/ \E p \in Procs : SkeletonResolve(p, 100 + p)
  \/ \E p \in Procs : SkeletonReject(p)
  \/ \E p \in Procs, ok \in BOOLEAN : RemoveSettle(p, ok)

Spec == Init /\ [][Next]_vars


NextCache ==
  \/ Tick
  \/ \E p \in Procs : \E url \in CallUrls(p) : Call(p, url)
  \/ \E p \in Procs, body \in AllBodies : PrimaryResolve(p, body)
  \/ \E p \in Procs : PrimaryReject(p)
  \/ \E p \in Procs, body \in AllBodies : FallbackResolve(p, body)
  \/ \E p \in Procs : FallbackReject(p)

SpecCache == Init /\ [][NextCache]_vars

\* The selection handler alone, the outcomes of its deleteMessage calls kept.
InitSelect ==
  /\ clock = 0
  /\ CACHE = EmptyMap
  /\ h = [p \in Procs |-> Idle]
  /\ reqs = [p \in Procs |-> <<>>]
  /\ sent = [p \in Procs |-> <<>>]
  /\ ops = [p \in Procs |-> <<>>]
  /\ lastSet = EmptyMap
  /\ ctext = <<>>
  /\ cout = [done |-> FALSE]
  /\ rin = <<>>
  /\ rout = [phase |-> "none", removal |-> [p \in Procs |-> "none"]]

NextSelect ==
  \/ Tick
  \/ \E p \in Procs, q \in InCallbacks : OnCallbackQuery(p, q.chat, q.data)
  \/ \E p \in Procs, body \in AllBodies : PrimaryResolve(p, body)
  \/ \E p \in Procs : PrimaryReject(p)
  \/ \E p \in Procs, body \in AllBodies : FallbackResolve(p, body)
  \/ \E p \in Procs : FallbackReject(p)
  \/ \E p \in Procs : AnswerResolve(p)
  \/ \E p \in Procs : AnswerReject(p)
  \/ \E p \in Procs : SkeletonResolve(p, 100 + p)
  \/ \E p \in Procs : SkeletonReject(p)
  \/ \E p \in Procs, ok \in BOOLEAN : RemoveSettleLogged(p, ok)

SpecSelect == InitSelect /\ [][NextSelect]_vars

(***************************************************************************)
(* The classifier alone, on every text of up to MaxWords words             *)
(***************************************************************************)
MaxWords == 2

Lexicon ==
  { <<"r", "r", "r">>, <<"d", "a", "r", "k">>, <<"s", "q", "u", "i", "d">>, <<"b", "r", "e", "a", "k", "i", "n", "g">>, <<"m", "o", "v", "i", "e">>, <<"F", "i", "l", "m">>, <<"t", "v">>, <<"T", "V">>, <<"s", "e", "r", "i", "e", "s">>,
    <<"s", "h", "o", "w">>, <<"w", "a", "t", "c", "h">>, <<"l", "i", "n", "k">>, <<"d", "o", "w", "n", "l", "o", "a", "d">> }

RECURSIVE JoinWords(_)
JoinWords(ws) ==
  IF Len(ws) = 0 THEN <<>>
  ELSE IF Len(ws) = 1 THEN ws[1]
  ELSE ws[1] \o <<" ">> \o JoinWords(Tail(ws))

ClassifierTexts ==
  {JoinWords(ws) : ws \in UNION {[1..n -> Lexicon] : n \in 0..MaxWords}}

InitClassify ==
  /\ clock = 0
  /\ CACHE = EmptyMap
  /\ h = [p \in Procs |-> Idle]
  /\ reqs = [p \in Procs |-> <<>>]
  /\ sent = [p \in Procs |-> <<>>]
  /\ ops = [p \in Procs |-> <<>>]
  /\ lastSet = EmptyMap
  /\ ctext \in ClassifierTexts
  /\ cout = [done |-> FALSE]
  /\ rin = <<>>
  /\ rout = [phase |-> "none"]

\* Lines 89-99 applied to msg.text = ctext.
Classify ==
  /\ ~cout.done
  /\ LET rawText == Trim(ctext)
     IN  cout' = [done |-> TRUE, rawText |-> rawText,
                  query |-> cleanQuery(rawText),
                  endpoint |-> ChooseEndpoint(rawText)]
  /\ UNCHANGED <<clock, CACHE, h, reqs, sent, ops, lastSet, ctext, rin, rout>>

NextClassify == Classify

SpecClassify == InitClassify /\ [][NextClassify]_vars

(***************************************************************************)
(* Properties of fastApi, checked under SpecCache                          *)
(***************************************************************************)
\* Run p has entered fastApi.
Entered(p) == h[p].url # NULL

\* The entry run p found at line 15 had reached CACHE_TTL.
FoundExpired(p) ==
  Entered(p) /\ h[p].found.some /\ h[p].now - h[p].found.time >= CACHE_TTL

\* C1: a call returns a payload from the cache only if the entry it read had
\* now - entry.time < CACHE_TTL (strictly), and then returns that entry's data;
\* a call that reads an entry with now - entry.time >= CACHE_TTL is never
\* served from the cache and goes upstream.
Staleness ==
  \A p \in Procs :
    /\ h[p].fetch = "hit" =>
         /\ h[p].found.some
         /\ h[p].now - h[p].found.time < CACHE_TTL
         /\ h[p].res.by = h[p].found.by
    /\ FoundExpired(p) =>
         /\ h[p].fetch # "hit"
         /\ Len(reqs[p]) >= 1
         /\ reqs[p][1].url = h[p].url

\* An entry read at the age of exactly CACHE_TTL, and the call went upstream.
StalenessWitness ==
  \E p \in Procs :
    /\ Entered(p) /\ h[p].found.some
    /\ h[p].now - h[p].found.time = CACHE_TTL
    /\ Len(reqs[p]) >= 1

\* Run l began fastApi(U) after run a's fastApi(U) had returned a payload, less
\* than CACHE_TTL after run a began.
BeganWithinTtlOf(l, a) ==
  /\ a # l
  /\ Entered(l)
  /\ a \in h[l].returnedBefore
  /\ h[l].url = h[a].url
  /\ h[l].now - h[a].now < CACHE_TTL

\* Run l was served from the cache with the payload object run a returned.
ServedPayloadOf(l, a) ==
  /\ h[l].fetch = "hit"
  /\ h[l].res = h[a].res
  /\ reqs[l] = <<>>

\* C2 as stated: a call that begins less than CACHE_TTL after an earlier call
\* for the same URL began, that earlier call having returned, returns the
\* identical payload object and issues no upstream request.
SecondFetchServedOriginal ==
  \A a, l \in Procs : BeganWithinTtlOf(l, a) => ServedPayloadOf(l, a)

\* C2 as amended: the same, for an earlier call that stored its own upstream
\* response and whose entry is still the one in the cache when the later call
\* begins (no other call for the URL has overwritten it).
SecondFetchServed ==
  \A a, l \in Procs :
    ( /\ BeganWithinTtlOf(l, a)
      /\ h[a].fetch = "stored"
      /\ h[l].found.some
      /\ h[l].found.by = a )
    => ServedPayloadOf(l, a)

\* A second call CACHE_TTL - 1 after the first began, served the first's payload.
SecondFetchServedWitness ==
  \E a, l \in Procs :
    /\ BeganWithinTtlOf(l, a)
    /\ h[a].fetch = "stored"
    /\ h[l].found.some /\ h[l].found.by = a
    /\ h[l].now - h[a].now = CACHE_TTL - 1
    /\ ServedPayloadOf(l, a)

\* C3: a call that finds the entry stored for its URL CACHE_TTL or more after
\* the entry's time issues a new upstream request for the URL, and when it
\* succeeds the entry for the URL has a time strictly greater than the one the
\* entry had before.
RefetchAfterTtl ==
  /\ [](\A p \in Procs :
          FoundExpired(p) =>
            /\ Len(reqs[p]) >= 1
            /\ reqs[p][1].url = h[p].url
            /\ h[p].fetch = "stored" => h[p].res.by = p /\ h[p].now > h[p].found.time)
  /\ [][\A p \in Procs :
          (FoundExpired(p) /\ h[p].fetch # "stored" /\ h'[p].fetch = "stored") =>
            /\ h[p].url \in DOMAIN CACHE'
            /\ CACHE'[h[p].url].time > h[p].found.time]_vars

\* An expired entry was found, the refetch succeeded, and the entry is newer.
RefetchAfterTtlWitness ==
  \E p \in Procs :
    /\ FoundExpired(p)
    /\ h[p].fetch = "stored"
    /\ h[p].url \in DOMAIN CACHE
    /\ CACHE[h[p].url].data.by = p
    /\ CACHE[h[p].url].time > h[p].found.time

\* PROXY_API_URL followed by the percent-encoded search URL for "rrr", written out.
ProxiedSearchUrl ==
  <<"h", "t", "t", "p", "s", ":", "/", "/", "p", "x", "/", "?", "u", "=", "h", "t", "t", "p", "s", "%", "3", "A", "%", "2", "F", "%", "2", "F", "a", "p", "i", ".", "t", "h", "e", "m", "o", "v", "i", "e", "d", "b", ".", "o", "r", "g", "%", "2", "F", "3", "%", "2", "F", "s", "e", "a", "r", "c", "h", "%", "2", "F", "m", "o", "v", "i", "e", "%", "3", "F", "q", "u", "e", "r", "y", "%", "3", "D", "r", "r", "r", "%", "2", "6", "a", "p", "i", "_", "k", "e", "y", "%", "3", "D", "k">>

\* C4: after the primary request of fastApi(U) failed the call requests
\* PROXY_API_URL + percent-encoded U; a fallback response is stored under U and
\* returned; every cache key is a URL that was passed to fastApi, never a proxy
\* URL.
FallbackKeyedByOriginal ==
  /\ \A p \in Procs :
       /\ h[p].pc = "fallback" => Len(reqs[p]) = 2
       /\ Len(reqs[p]) >= 2 =>
            /\ reqs[p][2].url = PROXY_API_URL \o encodeURIComponent(h[p].url)
            /\ h[p].url = SearchUrl(EndpointMovie, <<"r", "r", "r">>) =>
                 reqs[p][2].url = ProxiedSearchUrl
       /\ (h[p].fetch = "stored" /\ Len(reqs[p]) = 2) =>
            /\ h[p].res = [by |-> p, via |-> "proxy", req |-> reqs[p][2].url,
                           data |-> h[p].res.data]
            /\ ops[p][Len(ops[p])] = [op |-> "set", key |-> h[p].url]
  /\ DOMAIN CACHE \subseteq {h[p].url : p \in {q \in Procs : Entered(q)}}
  /\ \A k \in DOMAIN CACHE : ~StartsWith(k, PROXY_API_URL)

\* A fallback response is the entry under the original URL.
FallbackKeyedByOriginalWitness ==
  \E p \in Procs :
    /\ h[p].fetch = "stored" /\ h[p].res.via = "proxy"
    /\ h[p].url \in DOMAIN CACHE
    /\ CACHE[h[p].url].data = h[p].res

\* Run p's fastApi call failed on the primary and on the fallback request.
BothFailed(p) == h[p].fetch = "error"

\* C5 as stated: a call whose primary and fallback requests both fail signals an
\* error and has made no change to the cache map, whatever the prior state
\* (no entry, a fresh entry, an expired entry).
FailureLeavesCacheOriginal ==
  \A p \in Procs : BothFailed(p) => h[p].pc = "rejected" /\ ops[p] = <<>>

\* C5 as amended: such a call signals an error and creates or updates no
\* entry; the only change it makes to the cache map is the removal, at line
\* 18, of an expired entry for its URL, which it does not put back.
FailureLeavesCache ==
  /\ [](\A p \in Procs :
          BothFailed(p) =>
            /\ h[p].pc = "rejected"
            /\ Len(reqs[p]) = 2
            /\ ops[p] = IF FoundExpired(p)
                          THEN << [op |-> "delete", key |-> h[p].url] >>
                          ELSE <<>>)
  /\ [][\A p \in Procs :
          (~BothFailed(p) /\ h'[p].fetch = "error") => CACHE' = CACHE]_vars

\* A call that removed an expired entry and then failed twice.
FailureLeavesCacheWitness ==
  \E p \in Procs : BothFailed(p) /\ FoundExpired(p) /\ h[p].url \notin DOMAIN CACHE

\* C6: every call that is not served from the cache issues its own primary
\* request for its URL, and its own fallback request once its primary failed;
\* the payload it returns is the response to its own request, also when another
\* call for the same URL is in flight.
NoCoalescing ==
  \A p \in Procs :
    (Entered(p) /\ h[p].fetch # "hit") =>
      /\ Len(reqs[p]) >= 1
      /\ reqs[p][1] = [url |-> h[p].url, timeout |-> 5000]
      /\ (h[p].pc = "fallback" \/ BothFailed(p)) =>
           /\ Len(reqs[p]) = 2
           /\ reqs[p][2] = [url |-> ProxyUrl(h[p].url), timeout |-> 8000]
      /\ h[p].fetch = "stored" =>
           /\ h[p].res.by = p
           /\ h[p].res.req = reqs[p][Len(reqs[p])].url

\* Two calls for one URL, the second begun while the first was in flight, both
\* answered by their own requests.
NoCoalescingWitness ==
  \E p, q \in Procs :
    /\ p # q
    /\ h[p].url = h[q].url
    /\ h[p].fetch = "stored" /\ h[q].fetch = "stored"
    /\ p \notin h[q].returnedBefore /\ q \notin h[p].returnedBefore
    /\ Len(reqs[p]) >= 1 /\ Len(reqs[q]) >= 1
    /\ h[p].res # h[q].res

\* C7: the entry under a URL is the {time, data} pair written by the call whose
\* CACHE.set for that URL came last: data is the response that call obtained
\* for the URL, directly or through the proxy, and time is the time that same
\* call captured; no entry mixes two calls or holds another URL's response.
LastWriterWins ==
  \A k \in DOMAIN CACHE :
    /\ k \in DOMAIN lastSet
    /\ LET w == lastSet[k]
       IN  /\ h[w].url = k
           /\ h[w].fetch = "stored"
           /\ CACHE[k] = [time |-> h[w].now, data |-> h[w].res]
           /\ CACHE[k].data.by = w
           /\ CACHE[k].data.req \in {k, ProxyUrl(k)}

\* Two overlapping calls for one URL wrote in turn, after the clock had moved;
\* the entry is the later writer's.
LastWriterWinsWitness ==
  \E p, q \in Procs :
    /\ p # q
    /\ h[p].url = h[q].url
    /\ h[p].fetch = "stored" /\ h[q].fetch = "stored"
    /\ q \notin h[p].returnedBefore /\ p \notin h[q].returnedBefore
    /\ h[p].url \in DOMAIN CACHE
    /\ lastSet[h[p].url] = p
    /\ CACHE[h[p].url].time = h[p].now
    /\ h[p].now < h[q].now
    /\ clock > h[q].now

(***************************************************************************)
(* Properties of the handlers, checked under Spec                          *)
(***************************************************************************)
\* Run p has ended: its handler returned, or its promise rejected with nothing
\* catching the error.
Ended(p) == h[p].pc \in {"done", "rejected"}

\* The message texts whose cleaned query is empty.
EmptyAfterCleaning ==
  UNION { IF cleanQuery(Trim(m.text)) = <<>> THEN {m.text} ELSE {}
          : m \in {n \in InMessages : n.text # NULL} }

\* The cleaned query of run p's text message is empty.
EmptyCleanedQuery(p) ==
  /\ h[p].kind = "message"
  /\ h[p].text # NULL
  /\ h[p].text # <<>>
  /\ ~StartsWith(h[p].text, <<"/">>)
  /\ h[p].text \in EmptyAfterCleaning

\* A step of run p's handler failed.
StepFailed(p) == EmptyCleanedQuery(p) \/ BothFailed(p) \/ h[p].pc = "rejected"

\* The last thing run p did was to send an error message to its chat.
ReportedToUser(p) ==
  /\ sent[p] # <<>>
  /\ LET last == sent[p][Len(sent[p])]
     IN  /\ last.method = "sendMessage"
         /\ last.chat = h[p].chat
         /\ last.text \in {TextEnterName, TextBusy, TextLoadFailed}

\* C8: every handler run in which a step failed (an empty cleaned query, a
\* fetch that failed on primary and fallback, a chat-transport call that
\* rejected) ends normally, having sent a message to its chat.
EveryFailureReported ==
  \A p \in Procs : (Ended(p) /\ StepFailed(p)) => h[p].pc = "done" /\ ReportedToUser(p)

\* C9: a text message whose cleaned query is empty is answered with the
\* 'please enter a movie or TV name' message and nothing else; its handler
\* makes no fastApi call, so no upstream request, and leaves the cache as it was.
EmptyQueryReported ==
  /\ [](\A p \in Procs :
          EmptyCleanedQuery(p) =>
            /\ h[p].pc = "done"
            /\ sent[p] = << SendMessage(h[p].chat, TextEnterName, <<>>) >>
            /\ ~Entered(p)
            /\ reqs[p] = <<>>
            /\ ops[p] = <<>>)
  /\ [][\A p \in Procs :
          (h[p].pc = "idle" /\ h'[p].kind = "message" /\ h'[p].text = <<"m", "o", "v", "i", "e">>) =>
            CACHE' = CACHE /\ reqs' = reqs]_vars

\* The message "movie" arrived while the cache held an entry, and was answered.
EmptyQueryReportedWitness ==
  \E p \in Procs :
    /\ EmptyCleanedQuery(p)
    /\ h[p].text = <<"m", "o", "v", "i", "e">>
    /\ Len(sent[p]) = 1
    /\ DOMAIN CACHE # {}

(***************************************************************************)
(* Properties of the classifier, checked under SpecClassify                *)
(***************************************************************************)
\* C10: the endpoint is movie exactly when the text matches the movie pattern
\* and not the tv pattern, tv exactly when it matches the tv pattern and not
\* the movie pattern, multi when it matches both or neither; 'rrr movie' gives
\* movie, 'dark tv' gives tv, 'squid' gives multi.
EndpointRule ==
  cout.done =>
    LET m == hasMovieKeyword(cout.rawText)
        v == hasTvKeyword(cout.rawText)
    IN  /\ cout.endpoint = EndpointMovie <=> (m /\ ~v)
        /\ cout.endpoint = EndpointTv <=> (v /\ ~m)
        /\ cout.endpoint = EndpointMulti <=> ((m /\ v) \/ (~m /\ ~v))
        /\ ctext = <<"r", "r", "r", " ", "m", "o", "v", "i", "e">> => cout.endpoint = <<"m", "o", "v", "i", "e">>
        /\ ctext = <<"d", "a", "r", "k", " ", "t", "v">> => cout.endpoint = <<"t", "v">>
        /\ ctext = <<"s", "q", "u", "i", "d">> => cout.endpoint = <<"m", "u", "l", "t", "i">>
        /\ ctext = <<"s", "q", "u", "i", "d", " ", "F", "i", "l", "m">> => cout.endpoint = <<"m", "o", "v", "i", "e">>
        /\ ctext = <<"T", "V", " ", "s", "e", "r", "i", "e", "s">> => cout.endpoint = <<"t", "v">>
        /\ ctext = <<"m", "o", "v", "i", "e", " ", "s", "h", "o", "w">> => cout.endpoint = <<"m", "u", "l", "t", "i">>

\* A text that matches both patterns was classified multi.
EndpointRuleWitness ==
  /\ cout.done
  /\ ctext = <<"m", "o", "v", "i", "e", " ", "s", "h", "o", "w">>
  /\ hasMovieKeyword(cout.rawText) /\ hasTvKeyword(cout.rawText)
  /\ cout.endpoint = EndpointMulti

(***************************************************************************)
(* The search reply and the selection that follows it, on every message    *)
(* text and every response body of the sets below                          *)
(***************************************************************************)
\* The longest results array of persons and untyped entries.
MaxResults == 11

\* The longest results array whose entries are of every kind.
MaxMixed == 2

\* ${r.id}: the decimal digits of a number.
RECURSIVE DigitsOf(_)
DigitsOf(n) ==
  LET d == <<"0", "1", "2", "3", "4", "5", "6", "7", "8", "9">>[(n % 10) + 1]
  IN  IF n < 10 THEN <<d>> ELSE DigitsOf(n \div 10) \o <<d>>

\* The id of the entry at position i of a results array.
IdAt(i) == DigitsOf(600 + i)

\* The entry at position i: a person, a movie or a series of the multi search
\* (with media_type), or an entry of the movie or tv search (without it).
ResultAt(kind, i) ==
  CASE kind = "person" ->
         [id |-> IdAt(i), media_type |-> <<"p", "e", "r", "s", "o", "n">>, name |-> <<"R", "a", "m">>]
    [] kind = "movie" ->
         [id |-> IdAt(i), media_type |-> <<"m", "o", "v", "i", "e">>, title |-> <<"R", "R", "R">>,
          release_date |-> <<"2", "0", "2", "2", "-", "0", "3", "-", "2", "4">>]
    [] kind = "tv" ->
         [id |-> IdAt(i), media_type |-> <<"t", "v">>, name |-> <<"D", "a", "r", "k">>,
          first_air_date |-> <<"2", "0", "1", "7", "-", "1", "2", "-", "0", "1">>]
    [] OTHER ->
         [id |-> IdAt(i), title |-> <<"R", "R", "R">>, release_date |-> <<"2", "0", "2", "2", "-", "0", "3", "-", "2", "4">>]

ResultArrays(kinds, maxLen) ==
  UNION { { [i \in 1..n |-> ResultAt(ks[i], i)] : ks \in [1..n -> kinds] }
          : n \in 0..maxLen }

\* res.data of the search: an error body without results, or a results array.
ReplyBodies ==
  {[status_message |-> <<"x">>]}
    \cup { [results |-> rs] : rs \in ResultArrays({"person", "plain"}, MaxResults)
                                      \cup ResultArrays({"person", "movie", "tv", "plain"},
                                                        MaxMixed) }

\* msg.text: a movie search, a tv search and a multi search.
ReplyTexts == { <<"r", "r", "r", " ", "m", "o", "v", "i", "e">>, <<"d", "a", "r", "k", " ", "t", "v">>, <<"s", "q", "u", "i", "d">> }

InitReply ==
  /\ clock = 0
  /\ CACHE = EmptyMap
  /\ h = [p \in Procs |-> Idle]
  /\ reqs = [p \in Procs |-> <<>>]
  /\ sent = [p \in Procs |-> <<>>]
  /\ ops = [p \in Procs |-> <<>>]
  /\ lastSet = EmptyMap
  /\ ctext = <<>>
  /\ cout = [done |-> FALSE]
  /\ rin \in [text : ReplyTexts, body : ReplyBodies]
  /\ rout = [phase |-> "none"]

\* bot.on('message') for msg.text = rin.text, its fastApi call returning a
\* response of body rin.body (lines 85-149).
Reply ==
  /\ rout.phase = "none"
  /\ LET rawText == Trim(rin.text)
         hr == [Idle EXCEPT !.kind = "message", !.chat = 1, !.text = rin.text,
                            !.rawText = rawText, !.query = cleanQuery(rawText),
                            !.endpoint = ChooseEndpoint(rawText),
                            !.res = Response(1, "primary", <<>>, rin.body),
                            !.fetch = "stored"]
     IN  rout' = [phase |-> "replied", endpoint |-> hr.endpoint,
                  sends |-> AfterFetch(hr).sends]
  /\ UNCHANGED <<clock, CACHE, h, reqs, sent, ops, lastSet, ctext, cout, rin>>

\* bot.on('callback_query') for a press on row i of the keyboard that was sent,
\* up to the URL of its fastApi call (lines 153-168).
Select(i) ==
  /\ rout.phase = "replied"
  /\ i \in 1..Len(rout.sends[1].markup)
  /\ "callback_data" \in DOMAIN rout.sends[1].markup[i][1]
  /\ LET data == rout.sends[1].markup[i][1].callback_data
         sel == SelectionOf(data)
     IN  rout' = IF ~StartsWith(data, <<"s", "e", "l", "e", "c", "t", "_">>)
                   THEN [phase |-> "ignored", endpoint |-> rout.endpoint,
                         sends |-> rout.sends, row |-> i, data |-> data]
                   ELSE [phase |-> "selected", endpoint |-> rout.endpoint,
                         sends |-> rout.sends, row |-> i, data |-> data,
                         type |-> sel.type, id |-> sel.id,
                         url |-> DetailUrl(sel.type, sel.id)]
  /\ UNCHANGED <<clock, CACHE, h, reqs, sent, ops, lastSet, ctext, cout, rin>>

NextReply ==
  \/ Reply
  \/ \E i \in 1..10 : Select(i)

SpecReply == InitReply /\ [][NextReply]_vars

(***************************************************************************)
(* Properties of the search reply, checked under SpecReply                 *)
(***************************************************************************)
\* s ends with suf.
EndsWith(s, suf) ==
  Len(s) >= Len(suf) /\ SubSeq(s, Len(s) - Len(suf) + 1, Len(s)) = suf

\* The entry is a person result.
IsPerson(r) == Field(r, "media_type") = <<"p", "e", "r", "s", "o", "n">>

\* How many of the first i results are not persons.
MediaBefore(results, i) == Cardinality({j \in 1..i : ~IsPerson(results[j])})

\* A search was answered with a non-empty results array and replied to.
RepliedToResults == rout.phase = "replied" /\ HasResults(rin.body)

\* C11: for a non-empty results array the one list that is sent has no row
\* built from a person result and min(10, number of media results) rows, row j
\* being built from the j-th media result of the array in upstream order (the
\* person results are dropped before the list is cut at 10).
ListIsFirstTenMedia ==
  RepliedToResults =>
    LET results == rin.body.results
        list == rout.sends[1].markup
        total == MediaBefore(results, Len(results))
    IN  /\ Len(rout.sends) = 1
        /\ Len(list) = (IF total < 10 THEN total ELSE 10)
        /\ \A j \in 1..Len(list) :
             /\ Len(list[j]) = 1
             /\ \E i \in 1..Len(results) :
                  /\ ~IsPerson(results[i])
                  /\ MediaBefore(results, i) = j
                  /\ EndsWith(list[j][1].callback_data, <<"_">> \o results[i].id)
             /\ \A i \in 1..Len(results) :
                  IsPerson(results[i]) =>
                    ~EndsWith(list[j][1].callback_data, <<"_">> \o results[i].id)

\* Eleven results, a person first and ten media results after it: the list has
\* ten rows and its last row is built from the eleventh result.
ListIsFirstTenMediaWitness ==
  /\ RepliedToResults
  /\ Len(rin.body.results) = 11
  /\ IsPerson(rin.body.results[1])
  /\ MediaBefore(rin.body.results, 11) = 10
  /\ Len(rout.sends[1].markup) = 10
  /\ EndsWith(rout.sends[1].markup[10][1].callback_data, <<"_", "6", "1", "1">>)

\* C12: every selection token of a list that is sent is select_<kind>_<id>
\* with kind movie or tv, for the movie, the tv and the multi endpoint and for
\* results with and without media_type.
TokenKindIsMovieOrTv ==
  RepliedToResults =>
    \A j \in 1..Len(rout.sends[1].markup) :
      LET data == rout.sends[1].markup[j][1].callback_data
      IN  \E kind \in {<<"m", "o", "v", "i", "e">>, <<"t", "v">>}, i \in 1..Len(rin.body.results) :
            data = <<"s", "e", "l", "e", "c", "t", "_">> \o kind \o <<"_">> \o rin.body.results[i].id

\* The search returned zero results: the results array is empty or missing.
ZeroResults ==
  ~("results" \in DOMAIN rin.body) \/ rin.body.results = <<>>

\* The web-search link of text, written out for the three message texts.
GoogleLinkOf(text) ==
  CASE text = <<"r", "r", "r", " ", "m", "o", "v", "i", "e">> -> <<"h", "t", "t", "p", "s", ":", "/", "/", "w", "w", "w", ".", "g", "o", "o", "g", "l", "e", ".", "c", "o", "m", "/", "s", "e", "a", "r", "c", "h", "?", "q", "=", "r", "r", "r", "%", "2", "0", "m", "o", "v", "i", "e">>
    [] text = <<"d", "a", "r", "k", " ", "t", "v">> -> <<"h", "t", "t", "p", "s", ":", "/", "/", "w", "w", "w", ".", "g", "o", "o", "g", "l", "e", ".", "c", "o", "m", "/", "s", "e", "a", "r", "c", "h", "?", "q", "=", "d", "a", "r", "k", "%", "2", "0", "t", "v">>
    [] text = <<"s", "q", "u", "i", "d">> -> <<"h", "t", "t", "p", "s", ":", "/", "/", "w", "w", "w", ".", "g", "o", "o", "g", "l", "e", ".", "c", "o", "m", "/", "s", "e", "a", "r", "c", "h", "?", "q", "=", "s", "q", "u", "i", "d">>

\* C13: when the search returned zero results (an empty or a missing results
\* array) the handler sends exactly one message, the 'no results' text with the
\* one link button whose URL is the web-search URL of the percent-encoded
\* message text as typed (keywords included), and so no selection list.
NoResultsReply ==
  (rout.phase = "replied" /\ ZeroResults) =>
    /\ Len(rout.sends) = 1
    /\ rout.sends[1].method = "sendMessage"
    /\ rout.sends[1].text = <<"No results found. Try Google">>
    /\ rout.sends[1].markup =
         << << [text |-> <<"Search on Google">>, url |-> GoogleLinkOf(rin.text)] >> >>

\* A response without a results array to "rrr movie": the link keeps " movie".
NoResultsReplyWitness ==
  /\ rout.phase = "replied"
  /\ rin.text = <<"r", "r", "r", " ", "m", "o", "v", "i", "e">>
  /\ "results" \notin DOMAIN rin.body
  /\ rout.sends[1].markup[1][1].url = <<"h", "t", "t", "p", "s", ":", "/", "/", "w", "w", "w", ".", "g", "o", "o", "g", "l", "e", ".", "c", "o", "m", "/", "s", "e", "a", "r", "c", "h", "?", "q", "=", "r", "r", "r", "%", "2", "0", "m", "o", "v", "i", "e">>

\* The result that row j of the list sent for rin was built from.
ResultOfRow(j) ==
  LET results == rin.body.results
  IN  results[CHOOSE i \in 1..Len(results) :
                ~IsPerson(results[i]) /\ MediaBefore(results, i) = j]

\* The kind the search handler gave result r.
KindOf(r) == IF "media_type" \in DOMAIN r THEN r.media_type ELSE rout.endpoint

\* C14: a token select_<kind>_<id> the search handler built for a result of
\* kind movie or tv, received by the selection handler, is parsed back to that
\* kind and that id, and the detail fetch is for /<kind>/<id>; select_movie_603
\* leads to /movie/603.
TokenRoundTrip ==
  rout.phase = "selected" =>
    LET r == ResultOfRow(rout.row)
        kind == KindOf(r)
    IN  /\ kind \in {<<"m", "o", "v", "i", "e">>, <<"t", "v">>} =>
             /\ rout.data = <<"s", "e", "l", "e", "c", "t", "_">> \o kind \o <<"_">> \o r.id
             /\ rout.type = kind
             /\ rout.id = r.id
             /\ rout.url = <<"h", "t", "t", "p", "s", ":", "/", "/", "a", "p", "i", ".", "t", "h", "e", "m", "o", "v", "i", "e", "d", "b", ".", "o", "r", "g", "/", "3", "/">> \o kind \o <<"/">> \o r.id
                             \o <<"?", "a", "p", "i", "_", "k", "e", "y", "=", "k">>
        /\ rout.data = <<"s", "e", "l", "e", "c", "t", "_", "m", "o", "v", "i", "e", "_", "6", "0", "3">> =>
             rout.url = <<"h", "t", "t", "p", "s", ":", "/", "/", "a", "p", "i", ".", "t", "h", "e", "m", "o", "v", "i", "e", "d", "b", ".", "o", "r", "g", "/", "3", "/", "m", "o", "v", "i", "e", "/", "6", "0", "3", "?", "a", "p", "i", "_", "k", "e", "y", "=", "k">>
        /\ rout.data = <<"s", "e", "l", "e", "c", "t", "_", "t", "v", "_", "6", "0", "2">> =>
             rout.url = <<"h", "t", "t", "p", "s", ":", "/", "/", "a", "p", "i", ".", "t", "h", "e", "m", "o", "v", "i", "e", "d", "b", ".", "o", "r", "g", "/", "3", "/", "t", "v", "/", "6", "0", "2", "?", "a", "p", "i", "_", "k", "e", "y", "=", "k">>

\* The third result of a movie search was selected: the fetch is for /movie/603.
TokenRoundTripWitness ==
  /\ rout.phase = "selected"
  /\ rin.text = <<"r", "r", "r", " ", "m", "o", "v", "i", "e">>
  /\ rout.row = 3
  /\ rout.data = <<"s", "e", "l", "e", "c", "t", "_", "m", "o", "v", "i", "e", "_", "6", "0", "3">>
  /\ rout.type = <<"m", "o", "v", "i", "e">> /\ rout.id = <<"6", "0", "3">>
  /\ rout.url = <<"h", "t", "t", "p", "s", ":", "/", "/", "a", "p", "i", ".", "t", "h", "e", "m", "o", "v", "i", "e", "d", "b", ".", "o", "r", "g", "/", "3", "/", "m", "o", "v", "i", "e", "/", "6", "0", "3", "?", "a", "p", "i", "_", "k", "e", "y", "=", "k">>

\* C20: a 'Results for' list that is sent has at least one row, and a results
\* array of person entries only is answered with the 'no results' message.
ListNeverEmpty ==
  rout.phase = "replied" =>
    /\ StartsWith(rout.sends[1].text, <<"Results for ">>) =>
         Len(rout.sends[1].markup) >= 1
    /\ ( /\ HasResults(rin.body)
         /\ \A i \in 1..Len(rin.body.results) : IsPerson(rin.body.results[i]) )
       => rout.sends[1].text = <<"No results found. Try Google">>

(***************************************************************************)
(* Properties of the order of a handler's steps, checked under Spec        *)
(***************************************************************************)
\* Run p's handler came to its fastApi call: a text message whose query (line
\* 90) is not empty, or a selection whose loading message was sent.
ReachedFetch(p) ==
  \/ /\ h[p].kind = "message"
     /\ h[p].query # NULL
     /\ h[p].query # <<>>
  \/ /\ h[p].kind = "callback"
     /\ h[p].skeleton # 0

\* The requests of run p's fetch call: at most the primary request and then the
\* fallback request, the fallback only with the primary failed before it, none
\* after a primary success, none on a cache hit.
AttemptsOrdered(p) ==
  /\ Len(reqs[p]) <= 2
  /\ Len(reqs[p]) >= 1 =>
       /\ h[p].calls = 1
       /\ reqs[p][1] = [url |-> h[p].url, timeout |-> 5000]
  /\ Len(reqs[p]) = 2 =>
       /\ reqs[p][2].timeout = 8000
       /\ StartsWith(reqs[p][2].url, PROXY_API_URL)
       /\ \/ h[p].pc = "fallback"
          \/ h[p].fetch = "stored" /\ h[p].res.via = "proxy"
          \/ h[p].fetch = "error"
  /\ h[p].pc = "primary" => Len(reqs[p]) = 1
  /\ (h[p].fetch = "stored" /\ h[p].res.via = "primary") => Len(reqs[p]) = 1
  /\ h[p].fetch = "hit" => reqs[p] = <<>>

\* C15 as stated: the requests of a fetch call are ordered as above, and every
\* handler run that has ended has issued exactly one fetch call.
OneFetchPerEventOriginal ==
  \A p \in Procs :
    /\ AttemptsOrdered(p)
    /\ Ended(p) => h[p].calls = 1

\* C15 as amended: the requests of a fetch call are ordered as above, a handler
\* run issues at most one fetch call, and a run that has ended has issued
\* exactly one if and only if its handler came to the fetch.
OneFetchPerEvent ==
  \A p \in Procs :
    /\ AttemptsOrdered(p)
    /\ h[p].calls <= 1
    /\ Ended(p) => (h[p].calls = 1 <=> ReachedFetch(p))

\* A search ended after its primary request failed and its fallback answered:
\* one fetch call, two requests.
OneFetchPerEventWitness ==
  \E p \in Procs :
    /\ Ended(p)
    /\ h[p].kind = "message"
    /\ h[p].calls = 1
    /\ Len(reqs[p]) = 2
    /\ h[p].fetch = "stored" /\ h[p].res.via = "proxy"

(***************************************************************************)
(* Properties of the selection handler, checked under SpecSelect           *)
(***************************************************************************)
\* C16: in the selection handler the loading message is sent before the detail
\* fetch starts; the deletion of the loading message is attempted exactly once,
\* after the fetch has completed, on the success and on the failure path alike,
\* and before the detail card or the load-failure message; a deletion that
\* failed is swallowed, the final message is sent all the same.
LoadingLifecycle ==
  \A p \in Procs :
    (h[p].kind = "callback" /\ Entered(p)) =>
      LET ack == [method |-> "answerCallbackQuery", chat |-> h[p].chat,
                  text |-> <<"Loading...">>]
          loading == [method |-> "sendMessage", chat |-> h[p].chat,
                      text |-> <<"Loading...">>, markup |-> <<>>]
          del == [method |-> "deleteMessage", chat |-> h[p].chat,
                  message_id |-> 100 + p]
      IN  /\ h[p].pc \in {"primary", "fallback", "removing", "done"}
          /\ h[p].pc \in {"primary", "fallback"} =>
               /\ sent[p] = <<ack, loading>>
               /\ h[p].fetch = "none"
               /\ rout.removal[p] = "none"
          /\ h[p].pc = "removing" =>
               /\ sent[p] = <<ack, loading, del>>
               /\ h[p].fetch \in {"hit", "stored", "error"}
               /\ rout.removal[p] = "none"
          /\ h[p].pc = "done" =>
               /\ Len(sent[p]) = 4
               /\ SubSeq(sent[p], 1, 3) = <<ack, loading, del>>
               /\ rout.removal[p] \in {"deleted", "failed"}
               /\ h[p].fetch = "error" =>
                    sent[p][4] = [method |-> "sendMessage", chat |-> h[p].chat,
                                  text |-> <<"Failed to load details">>,
                                  markup |-> <<>>]
               /\ h[p].fetch \in {"hit", "stored"} =>
                    /\ sent[p][4].method = "sendPhoto"
                    /\ sent[p][4].chat = h[p].chat

\* The fetch succeeded, the deletion of the loading message failed, and the
\* detail card was sent after it.
LoadingLifecycleWitness ==
  \E p \in Procs :
    /\ h[p].kind = "callback"
    /\ h[p].pc = "done"
    /\ h[p].fetch = "stored"
    /\ rout.removal[p] = "failed"
    /\ sent[p][3].method = "deleteMessage"
    /\ sent[p][4].method = "sendPhoto"

(***************************************************************************)
(* Properties of the cache entries' lifetime, checked under SpecCache      *)
(***************************************************************************)
\* This step is run p's entry into fastApi.
Enters(p) == ~Entered(p) /\ h'[p].url # NULL

\* This step is a CACHE.set of run p: the call stores the response it obtained.
Stores(p) == h[p].fetch # "stored" /\ h'[p].fetch = "stored"

\* C17: a call that finds an entry of age CACHE_TTL or more for its URL removes
\* it before it issues its request; an entry leaves the cache in no other way;
\* and a key comes (back) into the cache only when a call for it stores the
\* response it obtained.
LazyExpiry ==
  /\ [](\A p \in Procs :
          FoundExpired(p) =>
            /\ ops[p] # <<>>
            /\ ops[p][1] = [op |-> "delete", key |-> h[p].url]
            /\ \A i \in 2..Len(ops[p]) : ops[p][i].op = "set"
            /\ h[p].fetch \in {"none", "error"} =>
                 \/ h[p].url \notin DOMAIN CACHE
                 \/ CACHE[h[p].url].data.by # h[p].found.by)
  /\ [][\A p \in Procs :
          (Enters(p) /\ h'[p].found.some
             /\ h'[p].now - h'[p].found.time >= CACHE_TTL) =>
            /\ h'[p].url \in DOMAIN CACHE
            /\ h'[p].url \notin DOMAIN CACHE'
            /\ reqs[p] = <<>>
            /\ reqs'[p] = <<[url |-> h'[p].url, timeout |-> 5000]>>]_vars
  /\ [][\A k \in DOMAIN CACHE \ DOMAIN CACHE' :
          \E p \in Procs :
            /\ Enters(p)
            /\ h'[p].url = k
            /\ CACHE[k].time = h'[p].found.time
            /\ h'[p].now - CACHE[k].time >= CACHE_TTL
            /\ CACHE' = MapDelete(CACHE, k)]_vars
  /\ [][\A k \in DOMAIN CACHE' \ DOMAIN CACHE :
          \E p \in Procs :
            /\ Stores(p)
            /\ h[p].url = k
            /\ CACHE'[k].data = h'[p].res
            /\ h'[p].res.by = p]_vars

\* A call found an entry of age CACHE_TTL, removed it, and its request is in
\* flight with no entry for the URL in the cache.
LazyExpiryWitness ==
  \E p \in Procs :
    /\ FoundExpired(p)
    /\ h[p].pc = "primary"
    /\ ops[p] = <<[op |-> "delete", key |-> h[p].url]>>
    /\ h[p].url \notin DOMAIN CACHE

\* This step is run p's fastApi call being served from the cache.
IsServed(p) == h[p].fetch # "hit" /\ h'[p].fetch = "hit"

\* C18: a call served from the cache leaves the whole Map as it was, the time
\* of the entry it read included, and makes no upstream request; so an entry
\* is served only less than CACHE_TTL after the captured start time of the
\* call that stored it, however many calls it has served in between.
HitLeavesCache ==
  /\ [][\A p \in Procs :
          IsServed(p) => CACHE' = CACHE /\ ops' = ops /\ reqs' = reqs]_vars
  /\ [](\A p \in Procs :
          h[p].fetch = "hit" =>
            /\ ops[p] = <<>>
            /\ h[p].found.time = h[h[p].found.by].now
            /\ h[p].now - h[h[p].found.by].now < CACHE_TTL)
  /\ [](\A p \in Procs :
          ( /\ Entered(p) /\ h[p].found.some
            /\ h[p].now - h[h[p].found.by].now >= CACHE_TTL )
          => h[p].fetch # "hit")

\* An entry stored at time 0 was served at CACHE_TTL - 1 and was found expired
\* by the next call at CACHE_TTL: the hit did not renew it.
HitLeavesCacheWitness ==
  \E a, b, c \in Procs :
    /\ h[a].fetch = "stored" /\ h[a].now = 0
    /\ h[b].fetch = "hit" /\ h[b].found.by = a /\ h[b].now = CACHE_TTL - 1
    /\ FoundExpired(c) /\ h[c].found.by = a /\ h[c].now = CACHE_TTL
    /\ b \in h[c].returnedBefore
    /\ Len(reqs[c]) >= 1

\* C19 as stated: the time of the entry of a URL never decreases when the entry
\* is replaced: every write stores a time at or after the time of the entry it
\* replaces.
TimestampMonotoneOriginal ==
  [][\A k \in DOMAIN CACHE \cap DOMAIN CACHE' :
       CACHE'[k].time >= CACHE[k].time]_vars

\* C19 as amended: every write stores the time the writing call captured when
\* it began; the time it replaces is later exactly when the call that stored
\* the replaced entry began later than the writer, which is the case only for
\* two calls that overlap: a writer that began after that call had returned
\* never stores an earlier time.
TimestampOfWriter ==
  [][\A p \in Procs :
       Stores(p) =>
         LET k == h[p].url
         IN  /\ CACHE'[k].time = h[p].now
             /\ k \in DOMAIN CACHE =>
                  LET prev == CACHE[k].data.by
                  IN  /\ CACHE[k].time = h[prev].now
                      /\ CACHE'[k].time < CACHE[k].time <=> h[p].now < h[prev].now
                      /\ CACHE'[k].time < CACHE[k].time =>
                           prev \notin h[p].returnedBefore
                      /\ prev \in h[p].returnedBefore =>
                           CACHE'[k].time >= CACHE[k].time]_vars

\* A call that began at time 0 stored its response after a call that began
\* later had stored its own: the entry of the URL went back to time 0.
TimestampOfWriterWitness ==
  \E p, q \in Procs :
    /\ p # q
    /\ h[p].url = h[q].url
    /\ h[p].fetch = "stored" /\ h[q].fetch = "stored"
    /\ h[p].now = 0 /\ h[q].now > 0
    /\ ops[q] # <<>> /\ ops[q][Len(ops[q])].op = "set"
    /\ lastSet[h[p].url] = p
    /\ h[p].url \in DOMAIN CACHE
    /\ CACHE[h[p].url].time = 0
    /\ CACHE[h[p].url].data.by = p

====
